---- MODULE Spec2Model ----
(***************************************************************************)
(* A model of ReceiptParser (src/app.py): parse_receipt and the functions  *)
(* it calls, extract_store_name, extract_date, extract_items and           *)
(* extract_total.  Text is modelled as TLA+ strings; the regular           *)
(* expressions of the source are data (sequences of elements) interpreted  *)
(* by a matcher with Python's priorities (greedy and lazy quantifiers,     *)
(* leftmost match).                                                        *)
(*                                                                         *)
(* In src/app.py every occurrence of the two characters $' is followed     *)
(* by a stray copy of main(); the model reads each cut line joined with    *)
(* its continuation after the copy (e.g. line 196 with line 323).          *)
(***************************************************************************)
EXTENDS Integers, Sequences, FiniteSets, TLC

(***************************************************************************)
(* Characters and strings                                                  *)
(***************************************************************************)

\* s[i] as a one-character string
Ch(s, i) == SubSeq(s, i, i)

DigitChars == {"0", "1", "2", "3", "4", "5", "6", "7", "8", "9"}

UpperChars == {"A", "B", "C", "D", "E", "F", "G", "H", "I", "J", "K", "L", "M",
               "N", "O", "P", "Q", "R", "S", "T", "U", "V", "W", "X", "Y", "Z"}

LowerChars == {"a", "b", "c", "d", "e", "f", "g", "h", "i", "j", "k", "l", "m",
               "n", "o", "p", "q", "r", "s", "t", "u", "v", "w", "x", "y", "z"}

\* \s of the re module, restricted to the characters of the modelled texts
SpaceChars == {" ", "\t", "\n"}

PunctChars == {"$", "@", ".", ",", "-", "/", ":", "#", "*", "=", "'", "&", "_"}

\* \w of the re module
WordChars == DigitChars \cup UpperChars \cup LowerChars \cup {"_"}

\* every character that occurs in a modelled text
Alphabet == DigitChars \cup UpperChars \cup LowerChars \cup SpaceChars \cup PunctChars

\* . of the re module: any character but the newline
DotChars == Alphabet \ {"\n"}

UpperSeq == "ABCDEFGHIJKLMNOPQRSTUVWXYZ"

LowerSeq == "abcdefghijklmnopqrstuvwxyz"

LetterIndex(c, letters) == CHOOSE k \in 1..26 : Ch(letters, k) = c

\* str.lower() and str.upper() on one character
LowerChar(c) == IF c \in UpperChars THEN Ch(LowerSeq, LetterIndex(c, UpperSeq)) ELSE c

UpperChar(c) == IF c \in LowerChars THEN Ch(UpperSeq, LetterIndex(c, LowerSeq)) ELSE c

RECURSIVE lower(_)
\* str.lower(), character by character (the string is halved to keep the
\* evaluation shallow)
lower(s) ==
    IF s = "" THEN ""
    ELSE IF Len(s) = 1 THEN LowerChar(s)
    ELSE lower(SubSeq(s, 1, Len(s) \div 2)) \o lower(SubSeq(s, (Len(s) \div 2) + 1, Len(s)))

\* str.isupper(): at least one cased character and no lower-case one
isupper(s) ==
    /\ \E i \in 1..Len(s) : Ch(s, i) \in UpperChars
    /\ \A i \in 1..Len(s) : Ch(s, i) \notin LowerChars

\* str.isdigit(): non-empty and all digits
isdigit(s) == s # "" /\ \A i \in 1..Len(s) : Ch(s, i) \in DigitChars

RECURSIVE TitleFrom(_, _, _)
\* the characters a..b of s.title(): a character after a cased one in lower
\* case, every other one in upper case
TitleFrom(s, a, b) ==
    IF a > b THEN ""
    ELSE IF a = b
         THEN (IF a > 1 /\ Ch(s, a - 1) \in UpperChars \cup LowerChars
               THEN LowerChar(Ch(s, a)) ELSE UpperChar(Ch(s, a)))
    ELSE TitleFrom(s, a, (a + b) \div 2) \o TitleFrom(s, ((a + b) \div 2) + 1, b)

\* str.title()
title(s) == TitleFrom(s, 1, Len(s))

\* str.strip(): drop leading and trailing whitespace
strip(s) ==
    LET keep == {i \in 1..Len(s) : Ch(s, i) \notin SpaceChars}
    IN  IF keep = {} THEN ""
        ELSE SubSeq(s, CHOOSE i \in keep : \A j \in keep : i <= j,
                       CHOOSE i \in keep : \A j \in keep : i >= j)

\* the Python expression  t in s  on strings
Contains(s, t) == \E k \in 0..(Len(s) - Len(t)) : SubSeq(s, k + 1, k + Len(t)) = t

\* the k-th smallest element of a set of numbers
Kth(set, k) == CHOOSE x \in set : Cardinality({y \in set : y <= x}) = k

\* str.split('\n'): the pieces between the line breaks, the empty ones too
split_lines(s) ==
    LET cuts == {0, Len(s) + 1} \cup {c \in 1..Len(s) : Ch(s, c) = "\n"}
    IN  [k \in 1..(Cardinality(cuts) - 1) |-> SubSeq(s, Kth(cuts, k) + 1, Kth(cuts, k + 1) - 1)]

\* str.split(): the maximal runs of non-whitespace
split_words(s) ==
    LET first == {c \in 1..Len(s) : Ch(s, c) \notin SpaceChars
                                     /\ (c = 1 \/ Ch(s, c - 1) \in SpaceChars)}
        last  == {c \in 1..Len(s) : Ch(s, c) \notin SpaceChars
                                     /\ (c = Len(s) \/ Ch(s, c + 1) \in SpaceChars)}
    IN  [k \in 1..Cardinality(first) |-> SubSeq(s, Kth(first, k), Kth(last, k))]

(***************************************************************************)
(* Regular expressions: re.match, re.search, re.findall, re.sub            *)
(***************************************************************************)

\* Elements of a pattern.  A class element matches between min and max
\* characters of set (max = -1: unbounded), as many as possible first, or as
\* few as possible first when lazy.
Rep(set, min, max) == [k |-> "cls", set |-> set, min |-> min, max |-> max, lazy |-> FALSE]

One(set) == Rep(set, 1, 1)

Opt(set) == Rep(set, 0, 1)

Star(set) == Rep(set, 0, -1)

Plus(set) == Rep(set, 1, -1)

LazyPlus(set) == [k |-> "cls", set |-> set, min |-> 1, max |-> -1, lazy |-> TRUE]

Bol == [k |-> "bol"]

Eol == [k |-> "eol"]

WordB == [k |-> "wb"]

RECURSIVE Lit(_)
\* a literal string, one element per character
Lit(t) == IF t = "" THEN <<>> ELSE <<One({Ch(t, 1)})>> \o Lit(Tail(t))

IsWordAt(s, i) == i >= 1 /\ i <= Len(s) /\ Ch(s, i) \in WordChars

\* The positions element e can end at when it starts after pos characters:
\* a class element takes between min and max characters of its set, the
\* other elements take none and test the position.
EndsOf(s, e, pos) ==
    CASE e.k = "cls" ->
            {q \in (pos + e.min)..(IF e.max = -1 \/ pos + e.max > Len(s) THEN Len(s) ELSE pos + e.max) :
                \A c \in (pos + 1)..q : Ch(s, c) \in e.set}
      [] e.k = "bol" -> IF pos = 0 THEN {pos} ELSE {}
      [] e.k = "eol" -> IF pos = Len(s) \/ (pos = Len(s) - 1 /\ Ch(s, Len(s)) = "\n")
                        THEN {pos} ELSE {}
      [] e.k = "wb"  -> IF IsWordAt(s, pos) # IsWordAt(s, pos + 1) THEN {pos} ELSE {}

RECURSIVE ReachRange(_, _, _, _, _)
\* f holds the set of the positions a match may start at and, for each
\* element of pat before element a, the positions a match can be at after
\* the element.  The sets of the elements a..b are added.  The range is
\* halved to keep the evaluation shallow, the first half first; the test of
\* f has f evaluated before the second half is entered.
ReachRange(s, pat, a, b, f) ==
    IF f # <<>> /\ a < b
    THEN ReachRange(s, pat, ((a + b) \div 2) + 1, b, ReachRange(s, pat, a, (a + b) \div 2, f))
    ELSE Append(f, {q : q \in UNION {EndsOf(s, pat[a], p) : p \in f[a]}})

\* the positions a match of pat that starts in starts can be at before its
\* first element and after each element
ReachFrom(s, pat, starts) == ReachRange(s, pat, 1, Len(pat), <<starts>>)

RECURSIVE CanRange(_, _, _, _, _, _)
\* f: ReachFrom(s, pat, starts).  t holds, for the elements of pat after
\* element b, one set each and a last one for the end of the pattern: the
\* positions of f from which the element and all elements after it match.
\* The sets of the elements a..b are put in front, the second half of the
\* range first.
CanRange(s, pat, f, a, b, t) ==
    IF t # <<>> /\ a < b
    THEN CanRange(s, pat, f, a, (a + b) \div 2, CanRange(s, pat, f, ((a + b) \div 2) + 1, b, t))
    ELSE << {q : q \in {p \in f[a] : EndsOf(s, pat[a], p) \cap t[1] # {}}} >> \o t

\* for each element of pat the positions of f from which it and the
\* elements after it match, and the positions after the last element
CanFrom(s, pat, f) == CanRange(s, pat, f, 1, Len(pat), << f[Len(pat) + 1] >>)

\* The end of element e, started after pos characters, that the re module
\* finds first among the ends from which the rest of the pattern matches
\* (can: the positions from which it does): it tries the most characters
\* first, the fewest first for a lazy element.
FirstEnd(s, e, pos, can) ==
    LET ends == EndsOf(s, e, pos) \cap can
    IN  CHOOSE q \in ends :
            \A o \in ends : IF e.k = "cls" /\ e.lazy THEN q <= o ELSE q >= o

RECURSIVE PathRange(_, _, _, _, _, _)
\* The match of pat, t: CanFrom(s, pat, f).  path: the start of the match,
\* a position from which pat matches, and the positions after each of the
\* elements before element a on the first successful path in the order the
\* re module tries them (backtracking takes, for each element in turn, the
\* first end from which the rest matches).  The positions after the
\* elements a..b are added, the first half of the range first.
PathRange(s, pat, t, a, b, path) ==
    IF path # <<>> /\ a < b
    THEN PathRange(s, pat, t, ((a + b) \div 2) + 1, b, PathRange(s, pat, t, a, (a + b) \div 2, path))
    ELSE Append(path, FirstEnd(s, pat[a], path[a], t[a + 1]))

\* the positions after each element of the match of pat that starts after
\* start characters
PathFrom(s, pat, t, start) == Tail(PathRange(s, pat, t, 1, Len(pat), <<start>>))

NoMatch == [found |-> FALSE, start |-> 0, path |-> <<>>]

\* the leftmost match, t: CanFrom(s, pat, f) with a non-empty first set
FirstMatch(s, pat, t) ==
    LET start == CHOOSE p \in t[1] : \A o \in t[1] : p <= o
    IN  [found |-> TRUE, start |-> start, path |-> PathFrom(s, pat, t, start)]

\* the leftmost match of pat among the starts of f: ReachFrom(s, pat,
\* starts); there is none if no start leads to the end of the pattern
MatchOf(s, pat, f) ==
    IF f[Len(pat) + 1] = {} THEN NoMatch ELSE FirstMatch(s, pat, CanFrom(s, pat, f))

\* re.search from position from on
SearchFrom(s, pat, from) ==
    IF from > Len(s) THEN NoMatch ELSE MatchOf(s, pat, ReachFrom(s, pat, from..Len(s)))

re_search(pat, s) == SearchFrom(s, pat, 0)

\* re.match: a match at the start of s
re_match(pat, s) == MatchOf(s, pat, ReachFrom(s, pat, {0}))

\* the end of a match
MatchEnd(m) == IF m.path = <<>> THEN m.start ELSE m.path[Len(m.path)]

\* match.group for a group that spans the elements a..b of the pattern
Group(s, m, a, b) ==
    SubSeq(s, (IF a = 1 THEN m.start ELSE m.path[a - 1]) + 1, m.path[b])

RECURSIVE FindAllFrom(_, _, _, _, _)
RECURSIVE FindAllNext(_, _, _, _, _)
\* re.findall for a pattern with one group spanning the elements a..b: the
\* group of each successive non-overlapping match
FindAllFrom(s, pat, a, b, from) == FindAllNext(s, pat, a, b, SearchFrom(s, pat, from))

\* the groups of the match m and of the matches after it
FindAllNext(s, pat, a, b, m) ==
    IF ~m.found THEN <<>>
    ELSE <<Group(s, m, a, b)>>
         \o FindAllFrom(s, pat, a, b, IF MatchEnd(m) > m.start THEN MatchEnd(m) ELSE m.start + 1)

re_findall(pat, a, b, s) == FindAllFrom(s, pat, a, b, 0)

RECURSIVE SubFrom(_, _, _, _)
RECURSIVE SubNext(_, _, _, _, _)
\* re.sub: every successive non-overlapping match replaced by repl (the
\* patterns of the source match no empty string)
SubFrom(s, pat, repl, from) ==
    IF from >= Len(s) THEN "" ELSE SubNext(s, pat, repl, from, SearchFrom(s, pat, from))

\* s from position from on with the match m and the matches after it
\* replaced
SubNext(s, pat, repl, from, m) ==
    IF ~m.found THEN SubSeq(s, from + 1, Len(s))
    ELSE SubSeq(s, from + 1, m.start) \o repl
         \o SubFrom(s, pat, repl, IF MatchEnd(m) > m.start THEN MatchEnd(m) ELSE Len(s) + 1)

re_sub(pat, repl, s) == SubFrom(s, pat, repl, 0)

RECURSIVE remove_chars(_, _)
\* re.sub of a one-character class by '', and str.replace(c, ''): s without
\* its characters of set (the string is halved to keep the evaluation
\* shallow)
remove_chars(s, set) ==
    IF s = "" THEN ""
    ELSE IF Len(s) = 1 THEN (IF s \in set THEN "" ELSE s)
    ELSE remove_chars(SubSeq(s, 1, Len(s) \div 2), set)
         \o remove_chars(SubSeq(s, (Len(s) \div 2) + 1, Len(s)), set)

(***************************************************************************)
(* Numbers: float(), f"{x:.2f}"                                            *)
(***************************************************************************)

RECURSIVE StripZeros(_)
\* a digit string without its leading zeros
StripZeros(d) == IF d # "" /\ Ch(d, 1) = "0" THEN StripZeros(Tail(d)) ELSE d

DigitVal(c) == CHOOSE v \in 0..9 : Ch("0123456789", v + 1) = c

RECURSIVE DigitsVal(_)
\* the value of a digit string
DigitsVal(d) == IF d = "" THEN 0 ELSE 10 * DigitsVal(SubSeq(d, 1, Len(d) - 1)) + DigitVal(Ch(d, Len(d)))

\* float() accepts the string: digits with at most one decimal point and at
\* least one digit (the strings the patterns capture hold no sign, exponent
\* or blank); any other string raises ValueError
float_ok(s) ==
    /\ \E i \in 1..Len(s) : Ch(s, i) \in DigitChars
    /\ \A i \in 1..Len(s) : Ch(s, i) \in DigitChars \cup {"."}
    /\ Cardinality({i \in 1..Len(s) : Ch(s, i) = "."}) <= 1

\* the place of the decimal point of s, Len(s) + 1 if it has none
DotAt(s) ==
    IF \E i \in 1..Len(s) : Ch(s, i) = "." THEN CHOOSE i \in 1..Len(s) : Ch(s, i) = "."
    ELSE Len(s) + 1

\* a value too large for every range test of the source, in thousandths
Huge == 100000000

\* float(s) for a string float() accepts.  mills: the value in thousandths,
\* the digits after the third dropped, Huge when the integer part has more
\* than five digits; more: a non-zero digit follows the third fraction digit.
float(s) ==
    LET d   == DotAt(s)
        int == StripZeros(SubSeq(s, 1, d - 1))
    IN  [mills |-> IF Len(int) > 5 THEN Huge
                   ELSE 1000 * DigitsVal(int) + DigitsVal(SubSeq(SubSeq(s, d + 1, Len(s)) \o "000", 1, 3)),
         more  |-> \E j \in (d + 4)..Len(s) : Ch(s, j) # "0"]

\* lo <= x <= hi, for a float x and lo and hi in thousandths
InRange(x, lo, hi) ==
    /\ x.mills >= lo
    /\ x.mills < hi \/ (x.mills = hi /\ ~x.more)

\* The float x rounded to hundredths as f"{x:.2f}" rounds it.  A value
\* exactly half way between two hundredths is rounded by its binary
\* expansion in Python; the modelled texts hold no such value (it takes
\* three or more fraction digits, the last non-zero one a 5 in the third
\* place).
Cents(x) ==
    LET c == x.mills \div 10
        r == x.mills % 10
    IN  IF r > 5 \/ (r = 5 /\ x.more) \/ (r = 5 /\ c % 2 = 1) THEN c + 1 ELSE c

RECURSIVE NatToStr(_)
\* str(n) for a natural number
NatToStr(n) == IF n < 10 THEN Ch("0123456789", n + 1) ELSE NatToStr(n \div 10) \o Ch("0123456789", (n % 10) + 1)

\* f"${price_float:.2f}"
format_price(price_float) ==
    LET c == Cents(price_float)
    IN  "$" \o NatToStr(c \div 100) \o "." \o NatToStr((c % 100) \div 10) \o NatToStr(c % 10)

\* str.replace(old, '') for a one-character old
remove_char(s, old) == remove_chars(s, {old})

(***************************************************************************)
(* extract_items: tables                                                   *)
(***************************************************************************)

\* \d+\.\d{2}
Price2 == <<Plus(DigitChars), One({"."}), Rep(DigitChars, 2, 2)>>

\* item_patterns: els are the elements, name and price the first and last
\* element of the name group and of the group the price is read from (the
\* last group: group 2 of a two-group pattern, group 3 of a three-group one)
item_patterns == <<
    \* ^(.+?)\s+\$?(\d+\.\d{2})$
    [els |-> <<Bol, LazyPlus(DotChars), Plus(SpaceChars), Opt({"$"})>> \o Price2 \o <<Eol>>,
     name |-> <<2, 2>>, price |-> <<5, 7>>],
    \* ^(.+?)\s+(\d+\.\d{2})$
    [els |-> <<Bol, LazyPlus(DotChars), Plus(SpaceChars)>> \o Price2 \o <<Eol>>,
     name |-> <<2, 2>>, price |-> <<4, 6>>],
    \* ^(.+?)\s+\d+\s*@\s*\$?(\d+\.\d{2})\s+\$?(\d+\.\d{2})$
    [els |-> <<Bol, LazyPlus(DotChars), Plus(SpaceChars), Plus(DigitChars), Star(SpaceChars),
               One({"@"}), Star(SpaceChars), Opt({"$"})>> \o Price2
             \o <<Plus(SpaceChars), Opt({"$"})>> \o Price2 \o <<Eol>>,
     name |-> <<2, 2>>, price |-> <<14, 16>>],
    \* ^(.+?)\s+\d+\s*x\s*\$?(\d+\.\d{2})\s+\$?(\d+\.\d{2})$
    [els |-> <<Bol, LazyPlus(DotChars), Plus(SpaceChars), Plus(DigitChars), Star(SpaceChars),
               One({"x"}), Star(SpaceChars), Opt({"$"})>> \o Price2
             \o <<Plus(SpaceChars), Opt({"$"})>> \o Price2 \o <<Eol>>,
     name |-> <<2, 2>>, price |-> <<14, 16>>],
    \* ^(.+?)\s+\$?(\d+\.?\d*)$
    [els |-> <<Bol, LazyPlus(DotChars), Plus(SpaceChars), Opt({"$"}),
               Plus(DigitChars), Opt({"."}), Star(DigitChars), Eol>>,
     name |-> <<2, 2>>, price |-> <<5, 7>>],
    \* ^\d+\s+(.+?)\s+\$?(\d+\.\d{2})$
    [els |-> <<Bol, Plus(DigitChars), Plus(SpaceChars), LazyPlus(DotChars), Plus(SpaceChars),
               Opt({"$"})>> \o Price2 \o <<Eol>>,
     name |-> <<4, 4>>, price |-> <<7, 9>>],
    \* ^\d{8,13}\s+(.+?)\s+\$?(\d+\.\d{2})$
    [els |-> <<Bol, Rep(DigitChars, 8, 13), Plus(SpaceChars), LazyPlus(DotChars), Plus(SpaceChars),
               Opt({"$"})>> \o Price2 \o <<Eol>>,
     name |-> <<4, 4>>, price |-> <<7, 9>>] >>

skip_terms == <<
    "total", "subtotal", "sub total", "sub-total", "tax", "sales tax", "state tax",
    "change", "cash", "credit", "debit", "visa", "mastercard", "amex", "discover",
    "receipt", "thank", "visit", "store", "phone", "address", "cashier", "register",
    "balance", "tendered", "payment", "card", "approval", "auth", "reference",
    "transaction", "merchant", "terminal", "batch", "sequence", "invoice",
    "customer", "member", "savings", "discount total", "coupon", "promotion",
    "tender", "amount due", "new balance", "previous balance", "minimum payment",
    "date", "time", "store #", "reg #", "tran #", "card #", "account",
    "www.", "http", ".com", ".net", ".org", "survey", "save", "earn",
    "points", "rewards", "club", "membership", "expires", "valid" >>

\* the marks of "common receipt formatting"
format_marks == <<"***", "---", "===", "store hours", "return policy">>

\* ^\d{1,2}[/-]\d{1,2}[/-]\d{2,4}$
date_line_pattern ==
    <<Bol, Rep(DigitChars, 1, 2), One({"/", "-"}), Rep(DigitChars, 1, 2), One({"/", "-"}),
      Rep(DigitChars, 2, 4), Eol>>

\* ^\d{1,2}:\d{2}(:\d{2})?\s*(am|pm)?$ with its optional groups written out:
\* the pattern matches when one of the six patterns without groups does
time_line_patterns ==
    LET hours   == <<Bol, Rep(DigitChars, 1, 2), One({":"}), Rep(DigitChars, 2, 2)>>
        seconds == <<One({":"}), Rep(DigitChars, 2, 2)>>
        tail(t) == <<Star(SpaceChars)>> \o Lit(t) \o <<Eol>>
    IN  <<hours \o seconds \o tail("am"), hours \o seconds \o tail("pm"), hours \o seconds \o tail(""),
          hours \o tail("am"), hours \o tail("pm"), hours \o tail("")>>

\* the class with the digits only: [\d]
numeric_chars_digits == DigitChars

\* [\d\s\-\.]
numeric_chars == DigitChars \cup SpaceChars \cup {"-", "."}

\* ^\d+\s*
leading_code_pattern == <<Bol, Plus(DigitChars), Star(SpaceChars)>>

\* \s+
spaces_pattern == <<Plus(SpaceChars)>>

\* ^\d+[A-Z]*\d*$
code_name_pattern == <<Bol, Plus(DigitChars), Star(UpperChars), Star(DigitChars), Eol>>

\* \$?(\d+\.\d{2}), the group spanning the elements 2..4
any_price_pattern == <<Opt({"$"})>> \o Price2

\* \$?\d+\.\d{2}.*$
price_to_end_pattern == <<Opt({"$"})>> \o Price2 \o <<Star(DotChars), Eol>>

\* the bounds of "Reasonable item price range", 0.01 and 2000, in thousandths
MinItemPrice == 10

\* the upper bound with one zero too many
MaxItemPriceTenfold == 2000000 * 10

MaxItemPrice == 2000000

\* return items[:50]
MaxItems == 50

(***************************************************************************)
(* extract_items: the line filter and the two extraction paths             *)
(***************************************************************************)

\* the term test with == written for in: only a line that is a skip term
has_skip_term_equal(line_lower) == \E t \in 1..Len(skip_terms) : line_lower = skip_terms[t]

\* the term test for terms at the start of the line only
has_skip_term_at_start(line_lower) ==
    \E t \in 1..Len(skip_terms) :
        /\ Len(skip_terms[t]) <= Len(line_lower)
        /\ SubSeq(line_lower, 1, Len(skip_terms[t])) = skip_terms[t]

\* for term in skip_terms: if term in line_lower
has_skip_term(line_lower) == \E t \in 1..Len(skip_terms) : Contains(line_lower, skip_terms[t])

\* the header test for lines of one word only
looks_like_header_one_word(line) == isupper(line) /\ Len(split_words(line)) <= 1


\* the header test for lines of at most two words
looks_like_header_two_words(line) == isupper(line) /\ Len(split_words(line)) <= 2

\* line.isupper() and len(line.split()) <= 3
looks_like_header(line) == isupper(line) /\ Len(split_words(line)) <= 3

\* the length test without its upper limit
too_short(line) == Len(strip(line)) < 3

\* len(line.strip()) < 3 or len(line.strip()) > 100
too_short_or_long(line) == Len(strip(line)) < 3 \/ Len(strip(line)) > 100

\* len(re.sub(r'[\d\s\-\.]', '', line)) < 3
mostly_numeric(line) == Len(remove_chars(line, numeric_chars)) < 3

\* any(pattern in line_lower for pattern in ['***', ...])
has_format_mark(line_lower) == \E t \in 1..Len(format_marks) : Contains(line_lower, format_marks[t])

\* re.match of the date pattern on line.strip()
is_date_line(line) == re_match(date_line_pattern, strip(line)).found

\* re.match of the time pattern on line_lower.strip()
is_time_line(line_lower) ==
    \E v \in 1..Len(time_line_patterns) : re_match(time_line_patterns[v], strip(line_lower)).found

\* the filter that returns True after the test of the first skip term: the
\* later terms and the later tests are never reached
is_likely_item_line_first_term(line) ==
    /\ ~too_short_or_long(line)
    /\ ~mostly_numeric(line)
    /\ ~Contains(strip(lower(line)), skip_terms[1])

\* is_likely_item_line(line): False at the first test that meets the line
is_likely_item_line(line) ==
    LET line_lower == strip(lower(line))
    IN  /\ ~too_short_or_long(line)
        /\ ~mostly_numeric(line)
        /\ ~has_skip_term(line_lower)
        /\ ~looks_like_header(line)
        /\ ~has_format_mark(line_lower)
        /\ ~is_date_line(line)
        /\ ~is_time_line(line_lower)

\* the clean-up that also removes every run of ten or more digits
clean_name_all_codes(name) ==
    IF name = "" THEN ""
    ELSE re_sub(spaces_pattern, " ",
                re_sub(<<Rep(DigitChars, 10, -1)>>, "", re_sub(leading_code_pattern, "", name)))

\* the clean-up of an item name: leading item code removed, whitespace
\* runs replaced by one space
clean_name(name) ==
    IF name = "" THEN "" ELSE re_sub(spaces_pattern, " ", re_sub(leading_code_pattern, "", name))

\* the duplicate check comparing the stored price with the price without
\* its '$'
is_duplicate_unformatted(items, item_name, formatted_price) ==
    \E n \in 1..Len(items) :
        /\ lower(items[n].name) = lower(item_name)
        /\ items[n].price = remove_char(formatted_price, "$")

\* the duplicate check: an item of the same name, compared in lower case,
\* and the same formatted price is in the list
is_duplicate(items, item_name, formatted_price) ==
    \E n \in 1..Len(items) :
        /\ lower(items[n].name) = lower(item_name)
        /\ items[n].price = formatted_price

NoCandidate == [ok |-> FALSE, name |-> "", price |-> ""]

\* the end of one pass of the pattern loop for a price float() has read:
\* the range test and the formatted price
priced_candidate(item_name, price_float) ==
    IF ~InRange(price_float, MinItemPrice, MaxItemPrice) THEN NoCandidate
    ELSE [ok |-> TRUE, name |-> item_name, price |-> format_price(price_float)]

\* one pass of the pattern loop from the cleaned name and the price string
\* on: the tests of the name and float(price_str) under try
named_candidate(item_name, price_str) ==
    IF Len(strip(item_name)) < 2 THEN NoCandidate
    ELSE IF re_match(code_name_pattern, strip(item_name)).found THEN NoCandidate
    ELSE IF ~float_ok(price_str) THEN NoCandidate
    ELSE priced_candidate(item_name, float(price_str))

\* one pass of the pattern loop from  if match  on
matched_candidate(line, p, match) ==
    IF ~match.found THEN NoCandidate
    ELSE named_candidate(
             clean_name(strip(Group(line, match, item_patterns[p].name[1], item_patterns[p].name[2]))),
             strip(Group(line, match, item_patterns[p].price[1], item_patterns[p].price[2])))

\* One pass of the body of the pattern loop up to the duplicate check, for
\* pattern p: the name and the formatted price the pattern yields, ok only
\* if no continue is taken (the pattern matches, the name is long enough
\* and no code, float() succeeds) and the price is in range.
pattern_candidate(line, p) == matched_candidate(line, p, re_search(item_patterns[p].els, line))


\* the append without the duplicate check
is_appended_ok_only(items, c) == c.ok

\* the candidate c is appended: it is ok and no duplicate
is_appended(items, c) == c.ok /\ ~is_duplicate(items, c.name, c.price)

\* the first pattern whose candidate is appended, 0 if there is none
first_pattern(items, line) ==
    LET hits == {q : q \in {p \in 1..Len(item_patterns) :
                               is_appended(items, pattern_candidate(line, p))}}
    IN  IF hits = {} THEN 0 ELSE CHOOSE p \in hits : \A o \in hits : p <= o

\* the append of a record with a third entry, a timestamp left empty
appended_with_timestamp(items, c) ==
    Append(items, [name |-> c.name, price |-> c.price, timestamp |-> ""])

\* items.append({'name': ..., 'price': ...}) for the candidate c
appended(items, c) == Append(items, [name |-> c.name, price |-> c.price])

RECURSIVE append_from(_, _, _)
\* the pattern loop from pattern p on without its break: every pattern
\* whose candidate is no duplicate appends it
append_from(items, line, p) ==
    IF p > Len(item_patterns) THEN items
    ELSE append_from(IF is_appended(items, pattern_candidate(line, p))
                     THEN appended(items, pattern_candidate(line, p)) ELSE items,
                     line, p + 1)

\* the end of the pattern loop without the break after the append
loop_end_no_break(items, line, p) ==
    IF p = 0 THEN [items |-> items, matched |-> FALSE, pat |-> 0]
    ELSE [items |-> append_from(items, line, p), matched |-> TRUE, pat |-> p]

\* the pattern loop ends with pattern p, 0: with no pattern left
loop_end(items, line, p) ==
    IF p = 0 THEN [items |-> items, matched |-> FALSE, pat |-> 0]
    ELSE [items |-> appended(items, pattern_candidate(line, p)), matched |-> TRUE, pat |-> p]

\* for pattern in item_patterns: the first pattern whose candidate is no
\* duplicate is appended and ends the loop (matched = True); a duplicate
\* candidate leaves the loop running with the next pattern.  pat: the
\* pattern that led to the item, 0 if none did.
pattern_loop(items, line) == loop_end(items, line, first_pattern(items, line))

\* price_matches with the '$' inside the group: (\$?\d+\.\d{2})
price_matches_with_dollar(line) == re_findall(any_price_pattern, 1, 4, line)

\* price_matches of the liberal approach
price_matches(line) == re_findall(any_price_pattern, 2, 4, line)

\* float(price_str) raises in the liberal approach, whose try statement has
\* no handler
fallback_raises(line) ==
    /\ Contains(line, "$")
    /\ LET found == price_matches(line)
       IN  found # <<>> /\ ~float_ok(found[Len(found)])

\* the liberal approach from the cleaned name on: the length test, the test
\* against skip_terms[:10] and the formatted price
fallback_named(item_name, price_float) ==
    IF ~(Len(item_name) >= 3) THEN NoCandidate
    ELSE IF \E t \in 1..10 : Contains(lower(item_name), skip_terms[t]) THEN NoCandidate
    ELSE [ok |-> TRUE, name |-> item_name, price |-> format_price(price_float)]

\* the liberal approach for a price float() has read: the range test and
\* the name, the line without its first price and what follows it
fallback_priced(line, price_float) ==
    IF ~InRange(price_float, MinItemPrice, MaxItemPrice) THEN NoCandidate
    ELSE fallback_named(clean_name(strip(re_sub(price_to_end_pattern, "", line))), price_float)

\* the liberal approach with the first price taken: price_matches[0]
fallback_found_first(line, found) ==
    IF found = <<>> THEN NoCandidate
    ELSE IF ~float_ok(found[1]) THEN NoCandidate
    ELSE fallback_priced(line, float(found[1]))

\* the liberal approach from  if price_matches  on, the last price taken
fallback_found(line, found) ==
    IF found = <<>> THEN NoCandidate
    ELSE IF ~float_ok(found[Len(found)]) THEN NoCandidate
    ELSE fallback_priced(line, float(found[Len(found)]))


\* the liberal approach without the test for a '$' in the line
fallback_candidate_any_line(line) == fallback_found(line, price_matches(line))

\* The liberal approach for a line with a '$' that no pattern matched: the
\* name and the formatted price, ok only if the last price of the line is in
\* range and the name passes the length test and the test against
\* skip_terms[:10].
fallback_candidate(line) ==
    IF ~Contains(line, "$") THEN NoCandidate
    ELSE fallback_found(line, price_matches(line))

\* the end of the liberal approach for the candidate c: the duplicate check
\* and the append
fallback_end(items, c) ==
    IF is_appended(items, c) THEN [items |-> appended(items, c), via |-> "fallback", pat |-> 0]
    ELSE [items |-> items, via |-> "none", pat |-> 0]

\* the liberal approach after the pattern loop left matched = False
fallback(items, line) ==
    IF fallback_raises(line) THEN [items |-> items, via |-> "raise", pat |-> 0]
    ELSE fallback_end(items, fallback_candidate(line))

\* the sort key: float(x['price'].replace('$', '')), in thousandths
price_key(item) == float(remove_char(item.price, "$")).mills

RECURSIVE total_of(_)
\* the sum of the prices of a list of items, in thousandths
total_of(items) ==
    IF items = <<>> THEN 0 ELSE price_key(Head(items)) + total_of(Tail(items))

\* the line loop after the pattern loop, whose outcome is r, for a likely
\* item line
line_end(items, stripped, r) ==
    IF r.matched THEN [items |-> r.items, via |-> "pattern", pat |-> r.pat]
    ELSE fallback(items, stripped)

\* the body of the line loop with a running-total test before the append: a
\* candidate of a short name whose price is within 0.05 of the sum of the
\* items so far is left out
process_line_running_total(items, line) ==
    IF ~is_likely_item_line(line) THEN [items |-> items, via |-> "skip", pat |-> 0]
    ELSE LET out == line_end(items, strip(line), pattern_loop(items, strip(line)))
         IN  IF /\ out.via \in {"pattern", "fallback"}
                /\ Len(out.items[Len(out.items)].name) < 6
                /\ price_key(out.items[Len(out.items)]) - total_of(items) \in -50..50
             THEN [items |-> items, via |-> "none", pat |-> 0]
             ELSE out

\* The body of "for line in lines" for one line: the item list after it and
\* how the line ended.  via: "skip" (not a likely item line), "pattern",
\* "fallback", "none" (nothing appended) or "raise" (ValueError leaves the
\* loop).
process_line(items, line) ==
    IF ~is_likely_item_line(line) THEN [items |-> items, via |-> "skip", pat |-> 0]
    ELSE line_end(items, strip(line), pattern_loop(items, strip(line)))

RECURSIVE insert_sorted_ascending(_, _)
\* the insertion of a sort without reverse=True: ascending prices
insert_sorted_ascending(sorted, item) ==
    IF sorted = <<>> THEN <<item>>
    ELSE IF price_key(Head(sorted)) <= price_key(item)
         THEN <<Head(sorted)>> \o insert_sorted_ascending(Tail(sorted), item)
         ELSE <<item>> \o sorted


RECURSIVE insert_sorted_before_equal(_, _)
\* the insertion that puts an item before the items of the same price
insert_sorted_before_equal(sorted, item) ==
    IF sorted = <<>> THEN <<item>>
    ELSE IF price_key(Head(sorted)) > price_key(item)
         THEN <<Head(sorted)>> \o insert_sorted_before_equal(Tail(sorted), item)
         ELSE <<item>> \o sorted

RECURSIVE insert_sorted(_, _)
\* item put into a list sorted by price in descending order, after the items
\* of the same price
insert_sorted(sorted, item) ==
    IF sorted = <<>> THEN <<item>>
    ELSE IF price_key(Head(sorted)) >= price_key(item)
         THEN <<Head(sorted)>> \o insert_sorted(Tail(sorted), item)
         ELSE <<item>> \o sorted

RECURSIVE sort_items(_)
\* items.sort(key=..., reverse=True): a stable sort, items of equal price
\* keep their order
sort_items(items) ==
    IF items = <<>> THEN <<>>
    ELSE insert_sorted(sort_items(SubSeq(items, 1, Len(items) - 1)), items[Len(items)])


\* the cut that keeps the end of the list
truncate_tail(items) ==
    SubSeq(items, IF Len(items) < MaxItems THEN 1 ELSE Len(items) - MaxItems + 1, Len(items))

\* items[:50]
truncate(items) == SubSeq(items, 1, IF Len(items) < MaxItems THEN Len(items) ELSE MaxItems)

RECURSIVE items_after(_, _)
\* the item list after the loop has processed the first n lines
items_after(lines, n) ==
    IF n = 0 THEN <<>>
    ELSE process_line(items_after(lines, n - 1), lines[n]).items

\* extract_items(lines): the loop over all lines, the sort and the cut
extract_items(lines) == truncate(sort_items(items_after(lines, Len(lines))))

(***************************************************************************)
(* extract_store_name, extract_date, extract_total, parse_receipt          *)
(***************************************************************************)

\* self.common_stores as set by __init__
InitialStores == <<
    "walmart", "target", "costco", "safeway", "kroger", "cvs", "walgreens",
    "home depot", "lowes", "best buy", "amazon", "whole foods", "trader joe",
    "starbucks", "mcdonalds", "subway", "chipotle" >>

\* lines[:5]
FirstLines == 5

\* extract_store_name(first_lines), stores: self.common_stores
extract_store_name(stores, first_lines) ==
    LET known == {n \in 1..Len(first_lines) :
                     \E k \in 1..Len(stores) : Contains(lower(first_lines[n]), stores[k])}
        named == {n \in 1..Len(first_lines) :
                     Len(first_lines[n]) > 2 /\ ~isdigit(first_lines[n])}
        first(S) == CHOOSE n \in S : \A o \in S : n <= o
    IN  IF known # {} THEN title(first_lines[first(known)])
        ELSE IF named # {} THEN title(first_lines[first(named)])
        ELSE "Unknown Store"

\* date_patterns, each with one group spanning the elements 2..Len - 1
date_patterns == <<
    \* \b(\d{1,2}[/-]\d{1,2}[/-]\d{2,4})\b
    <<WordB, Rep(DigitChars, 1, 2), One({"/", "-"}), Rep(DigitChars, 1, 2), One({"/", "-"}),
      Rep(DigitChars, 2, 4), WordB>>,
    \* \b(\d{2,4}[/-]\d{1,2}[/-]\d{1,2})\b
    <<WordB, Rep(DigitChars, 2, 4), One({"/", "-"}), Rep(DigitChars, 1, 2), One({"/", "-"}),
      Rep(DigitChars, 1, 2), WordB>>,
    \* \b(\w{3,9}\s+\d{1,2},?\s+\d{2,4})\b
    <<WordB, Rep(WordChars, 3, 9), Plus(SpaceChars), Rep(DigitChars, 1, 2), Opt({","}),
      Plus(SpaceChars), Rep(DigitChars, 2, 4), WordB>> >>

\* datetime.now().strftime("%m/%d/%Y") on day now of January 2024 (now = 0:
\* the first)
strftime(now) == "01/" \o (IF now + 1 < 10 THEN "0" ELSE "") \o NatToStr(now + 1) \o "/2024"

RECURSIVE date_from(_, _, _)
RECURSIVE date_of_match(_, _, _, _)
\* extract_date: the loop over date_patterns from pattern p on; the current
\* date if no pattern has a match with a digit
date_from(text, now, p) ==
    IF p > Len(date_patterns) THEN strftime(now)
    ELSE date_of_match(text, now, p, re_search(date_patterns[p], text))

\* the body of the loop for pattern p: matches[0] is the group of the
\* leftmost match m
date_of_match(text, now, p, m) ==
    IF ~m.found THEN date_from(text, now, p + 1)
    ELSE IF \E c \in (m.path[1] + 1)..m.path[Len(date_patterns[p]) - 1] : Ch(text, c) \in DigitChars
         THEN Group(text, m, 2, Len(date_patterns[p]) - 1)
         ELSE date_from(text, now, p + 1)

extract_date(text, now) == date_from(text, now, 1)

\* [:\s]*\$?(\d+\.?\d*) after a keyword
AmountTail == <<Star(SpaceChars \cup {":"}), Opt({"$"}), Plus(DigitChars), Opt({"."}), Star(DigitChars)>>

\* total_patterns: els and the first and last element of the group
total_patterns == <<
    \* total[:\s]*\$?(\d+\.?\d*)
    [els |-> Lit("total") \o AmountTail, amount |-> <<8, 10>>],
    \* amount[:\s]*\$?(\d+\.?\d*)
    [els |-> Lit("amount") \o AmountTail, amount |-> <<9, 11>>],
    \* balance[:\s]*\$?(\d+\.?\d*)
    [els |-> Lit("balance") \o AmountTail, amount |-> <<10, 12>>],
    \* \$(\d+\.\d{2})\s*$
    [els |-> <<One({"$"})>> \o Price2 \o <<Star(SpaceChars), Eol>>, amount |-> <<2, 4>>] >>

\* the bounds of the "Reasonable range" of a total, 0.01 and 10000, in
\* thousandths
MinTotal == 10

MaxTotal == 10000000

\* the amount if float() reads it and it is in the range, "" otherwise
valid_amount(amount) ==
    IF float_ok(amount) /\ InRange(float(amount), MinTotal, MaxTotal) THEN amount ELSE ""

\* the body of the pattern loop of extract_total from  if match  on
amount_of_match(line_lower, p, match) ==
    IF ~match.found THEN ""
    ELSE valid_amount(Group(line_lower, match, total_patterns[p].amount[1], total_patterns[p].amount[2]))

\* the amount pattern p returns for the line, "" if it returns none
total_amount(line, p) ==
    amount_of_match(lower(line), p, re_search(total_patterns[p].els, lower(line)))


\* the k-th pass of the loops with the lines taken from the first to the last
total_try_top_down(lines, k) ==
    total_amount(lines[((k - 1) \div Len(total_patterns)) + 1],
                 ((k - 1) % Len(total_patterns)) + 1)

\* the k-th pass of the loops of extract_total, over reversed(lines) and, in
\* each line, over total_patterns
total_try(lines, k) ==
    total_amount(lines[Len(lines) - ((k - 1) \div Len(total_patterns))],
                 ((k - 1) % Len(total_patterns)) + 1)

\* extract_total(lines): the amount of the first pass that returns one
extract_total(lines) ==
    LET hits == {q : q \in {k \in 1..(Len(lines) * Len(total_patterns)) : total_try(lines, k) # ""}}
    IN  IF hits = {} THEN "Not found"
        ELSE "$" \o total_try(lines, CHOOSE k \in hits : \A o \in hits : k <= o)

\* the list without its filter: [line.strip() for line in lines]
strip_nonempty_keep_empty(lines) == [k \in 1..Len(lines) |-> strip(lines[k])]

RECURSIVE strip_nonempty(_)
\* [line.strip() for line in lines if line.strip()] (the list is halved to
\* keep the evaluation shallow)
strip_nonempty(lines) ==
    IF lines = <<>> THEN <<>>
    ELSE IF Len(lines) = 1 THEN (IF strip(lines[1]) = "" THEN <<>> ELSE <<strip(lines[1])>>)
    ELSE strip_nonempty(SubSeq(lines, 1, Len(lines) \div 2))
         \o strip_nonempty(SubSeq(lines, (Len(lines) \div 2) + 1, Len(lines)))

\* the lines parse_receipt works on
receipt_lines(text) == strip_nonempty(split_lines(strip(text)))


\* the whole list in place of lines[:5]
first_lines_all(lines) == lines

\* lines[:5]
first_lines(lines) == SubSeq(lines, 1, IF Len(lines) < FirstLines THEN Len(lines) ELSE FirstLines)

\* parse_receipt(text) called on day now with self.common_stores = stores
parse_receipt(stores, text, now) ==
    [store_name   |-> extract_store_name(stores, first_lines(receipt_lines(text))),
     date         |-> extract_date(text, now),
     total_amount |-> extract_total(receipt_lines(text)),
     items        |-> extract_items(receipt_lines(text)),
     raw_text     |-> text]

(***************************************************************************)
(* The parser as a state machine                                           *)
(***************************************************************************)

VARIABLES
    common_stores,  \* self.common_stores of the ReceiptParser instance
    now,            \* the day datetime.now() returns
    pc,             \* "idle", "loop" (in the line loop of extract_items),
                    \* "done" (parse_receipt has returned) or "raised"
    text,           \* the argument of the running or last parse_receipt call
    lines,          \* lines of parse_receipt, the argument of extract_items
    i,              \* the number of lines the line loop has processed
    items,          \* items of extract_items
    receipt_data,   \* receipt_data of parse_receipt
    trace,          \* history: for each processed line how it ended and the
                    \* item it appended
    calls,          \* history: the calls that returned, with their results
    pdf             \* the extract_text_from_pdf call: its position, its locals,
                    \* the temporary file and the value it returned

vars == <<common_stores, now, pc, text, lines, i, items, receipt_data, trace, calls, pdf>>

\* the longest line list built from LinePool
MaxLines == 3

\* the number of parse_receipt calls on one parser instance
MaxCalls == 3

\* the number of times the day changes
MaxDay == 1

\* the raw lines the texts are built from
LinePool == {
    "Milk 1.50",
    "Bread 2.00",
    "Apples 2 @ 1.50 3.00",
    " Milk  $1.50 ",
    "Tea $1.50 each",
    "Laptop 1500.00",
    "1 345 $1.50 each" }

\* the end-to-end example of the specification
WalmartText == "WALMART\n123 MAIN ST\n04/01/24 10:15\nBANANAS 1.29\nBREAD 2X1.50 3.00\nTAX 0.32\nTOTAL 4.61"

\* the subtotal example of the specification, one field a line
SixLineText == "Milk\n1.50\nBread\n2.00\nSubtotal\n3.50"

\* the subtotal example, one item a line
SubtotalText == "Milk 1.50\nBread 2.00\nSubtotal 3.50"

\* a last line whose price is the sum of the prices before it
SumText == "Milk 1.50\nBread 2.00\nSum 3.50"

\* prices at and beyond the ends of the price range
RangeText == "Laptop 2000.01\nTv $2500.00 each\nGum 0.00\nPen 1999.999"

\* lines that are left out (no price, mostly numbers, a repeated line, a
\* skip term) among lines that are accepted
FailureText == "Milk\n12 34\nMilk 1.50\nMilk 1.50\nTea total $1.50 each\nBread 2.00"

\* a UPC code and lines with two characters that are no digit, whitespace,
\* hyphen or period, before a line with three
BarcodeText == "036000291452\nab 12.50\n12-34 5.00\nabc 12.50"

\* lines that hold total, subtotal, tax or balance, at their start, in their
\* middle and inside a word, before a line that holds none
VocabularyText == "TOTAL 12.34\nOrder Subtotal 3.50\nTaxi ride 12.00\nNew Balance 5.00\nMilk 1.50"

\* lines with a unit price before the line total, for the pattern loop and
\* for the liberal approach, and a line that ends in a number without decimals
LastPriceText == "Apples 2 x 1.50 3.00\nPears $1.50 $3.00 each\nApples 1.50 3.00 4"

\* lines that one test of the line filter meets (mostly numbers, a skip
\* term, a header, a formatting mark, a time), lines that two tests meet and
\* a line that none meets
RulesText ==
    "12-34 5.00\nOrder Subtotal 3.50\nBANANAS 1.29\n--- Milk 1.50\n04/01/24\n10:15 am\nTOTAL 12.34\nab\nMilk 1.50"

\* lines with a product code of ten digits after the name, before the name
\* and after a leading number, and a line for the liberal approach
CodeText == "Milk 0360002914 1.50\n0360002914 Bread 2.00\n1 0360002914 Eggs 2.50\nTea 0360002914 $1.50 each"

\* a line of 101 characters, the same line with 100 and a line of two
LengthText ==
    "Organic whole wheat sandwich bread with seeds and grains baked fresh in the shop every mornings 12.50\nOrganic whole wheat sandwich bread with seeds and grains baked fresh in the shop every morning 12.50\nab"

\* lines with a run of two blanks inside what, with one blank, is a skip
\* term, for the pattern loop and for the liberal approach
NormalisedText ==
    "Amount  due 5.00\nTran  # 7 $1.50 each"

\* an item accepted by the liberal approach and again yielded by a pattern,
\* an item accepted by a pattern and again yielded by the liberal approach,
\* and a name in another letter case
DuplicateText ==
    "Tea $1.50 each\nTea 1.50\nMilk 1.50\nMilk $1.50 each\nTEA  $1.50 each"

\* fifty-two item lines: three items of 1.00 and forty-nine dearer ones
ManyItemsText ==
    "Tea 1.00\nPea 1.00\nOat 1.00\nNut 1.01\nNut 1.02\nNut 1.03\nNut 1.04\nNut 1.05\nNut 1.06\nNut 1.07\nNut 1.08\nNut 1.09\nNut 1.10\nNut 1.11\nNut 1.12\nNut 1.13\nNut 1.14\nNut 1.15\nNut 1.16\nNut 1.17\nNut 1.18\nNut 1.19\nNut 1.20\nNut 1.21\nNut 1.22\nNut 1.23\nNut 1.24\nNut 1.25\nNut 1.26\nNut 1.27\nNut 1.28\nNut 1.29\nNut 1.30\nNut 1.31\nNut 1.32\nNut 1.33\nNut 1.34\nNut 1.35\nNut 1.36\nNut 1.37\nNut 1.38\nNut 1.39\nNut 1.40\nNut 1.41\nNut 1.42\nNut 1.43\nNut 1.44\nNut 1.45\nNut 1.46\nNut 1.47\nNut 1.48\nNut 1.49"

\* upper-case lines of three and of four tokens, and a line with lower-case letters
HeaderText ==
    "ORGANIC MILK 3.99\nORGANIC WHOLE MILK 3.99\nOrganic Milk 3.99\nEGGS $2.50"

\* lines no pattern accepts, without and with a '$', and a line with a '$' that a pattern accepts
FallbackText ==
    "Tea 1.50 each\nTea $1.50 each\nMilk 1.50\nJam $2.50\nMilk $1.50 each"

\* a total at the top, a line two patterns match, and two lines whose amounts are out of range
TotalText ==
    "Total 12.00\nBalance 5.00 total 6.00\nTotal 20000\nCash $0.00"

\* no known store in the first five lines, one in the sixth
CornerShopText ==
    "12\nab\nCorner shop\nMilk 1.50\nBread 2.00\nTarget 3.00"

\* a known store in the second line and another in the sixth
SecondLineStoreText ==
    "Receipt 7\nWALMART supercenter\nMilk 1.50\nBread 2.00\nTea 1.50\nTarget 3.00"

\* lines of digits and a line of two characters
NoNameText ==
    "12\n345\nab"

\* the examples of the specification and further single cases
ExampleTexts == {WalmartText, SixLineText, SubtotalText, SumText, RangeText, FailureText, "  \n\t\n",
                 BarcodeText, VocabularyText, LastPriceText, RulesText, CodeText, LengthText, NormalisedText, DuplicateText, ManyItemsText, HeaderText, FallbackText, TotalText, CornerShopText, SecondLineStoreText, NoNameText}

RECURSIVE Join(_)
\* '\n'.join(seq)
Join(seq) ==
    IF seq = <<>> THEN ""
    ELSE IF Len(seq) = 1 THEN seq[1]
    ELSE seq[1] \o "\n" \o Join(Tail(seq))

\* the texts parse_receipt is called with
Texts == {Join(seq) : seq \in UNION {[1..n -> LinePool] : n \in 0..MaxLines}} \cup ExampleTexts

\* the texts of the runs with several calls
CallTexts == {
    "Milk 1.50\nBread 2.00",
    "04/01/24\nTea $1.50 each",
    "Target\nMilk 1.50\nTotal: 1.50" }

NoData == [store_name |-> "", date |-> "", total_amount |-> "", items |-> <<>>, raw_text |-> ""]

NoItem == [name |-> "", price |-> ""]


\* the longest document
MaxPages == 2

\* None; a list of images, each named by the number of its page, is
\* [none |-> FALSE, list |-> ...]
None == [none |-> TRUE, list |-> <<>>]

\* the pages of the documents: what page.get_text() returns and what the OCR
\* of the page's image returns
PagePool == {
    [page_text |-> "Milk 1.50\n", ocr_text |-> ""],
    [page_text |-> "", ocr_text |-> "Tea 2.00\n"],
    [page_text |-> " \n", ocr_text |-> ""] }

\* the documents: up to MaxPages pages
Documents == UNION {[1..n -> PagePool] : n \in 0..MaxPages}

\* where the call raises, and at which page: nowhere, or in one of
\* NamedTemporaryFile, tmp_file.write, fitz.open, doc.close and, for a page,
\* get_text, get_pixmap, Image.open and, inside extract_text_from_image,
\* pytesseract.image_to_string
Failures ==
    {[point |-> "none", page |-> 0]}
    \cup {[point |-> p, page |-> 0] : p \in {"create", "write", "open", "close"}}
    \cup {[point |-> p, page |-> n] : p \in {"get_text", "get_pixmap", "image_open", "ocr"}, n \in 1..MaxPages}

\* no call of extract_text_from_pdf yet
NoPdfCall ==
    [at |-> "idle", PDF_SUPPORT |-> TRUE, pages |-> <<>>, failure |-> [point |-> "none", page |-> 0],
     tmp_file |-> "none", tmp_file_path |-> FALSE, doc |-> "none", page_num |-> 0,
     full_text |-> "", images |-> <<>>, raised |-> FALSE, st_errors |-> 0,
     returned |-> [full_text |-> "", images |-> None]]

Init ==
    /\ common_stores = InitialStores
    /\ now = 0
    /\ pc = "idle"
    /\ text = ""
    /\ lines = <<>>
    /\ i = 0
    /\ items = <<>>
    /\ receipt_data = NoData
    /\ trace = <<>>
    /\ calls = <<>>
    /\ pdf = NoPdfCall

\* parse_receipt(t) with the item list kept on the parser instead of being
\* created by the call
BeginKeepItems(t) ==
    /\ text' = t
    /\ lines' = receipt_lines(t)
    /\ receipt_data' = [NoData EXCEPT
            !.raw_text = t,
            !.store_name = extract_store_name(common_stores, first_lines(lines')),
            !.date = extract_date(t, now)]
    /\ i' = 0
    /\ trace' = <<>>
    /\ pc' = "loop"
    /\ UNCHANGED <<pdf, common_stores, now, calls, items>>

\* parse_receipt(t) up to the line loop of extract_items: the lines, the
\* store name, the date and the empty item list
Begin(t) ==
    /\ text' = t
    /\ lines' = receipt_lines(t)
    /\ receipt_data' = [NoData EXCEPT
            !.raw_text = t,
            !.store_name = extract_store_name(common_stores, first_lines(lines')),
            !.date = extract_date(t, now)]
    /\ items' = <<>>
    /\ i' = 0
    /\ trace' = <<>>
    /\ pc' = "loop"
    /\ UNCHANGED <<pdf, common_stores, now, calls>>

\* the first call on a new parser
ParseReceipt ==
    /\ pc = "idle"
    /\ \E t \in Texts : Begin(t)

\* a further call on the same parser
ParseAgain ==
    /\ pc \in {"idle", "done"}
    /\ Len(calls) < MaxCalls
    /\ \E t \in CallTexts : Begin(t)

\* one iteration of "for line in lines"
ProcessLine ==
    /\ pc = "loop"
    /\ i < Len(lines)
    /\ \E r \in {process_line(items, lines[i + 1])} :
           /\ items' = r.items
           /\ trace' = Append(trace, [via |-> r.via, pat |-> r.pat,
                                      item |-> IF r.via \in {"pattern", "fallback"}
                                               THEN r.items[Len(r.items)] ELSE NoItem])
           /\ pc' = IF r.via = "raise" THEN "raised" ELSE "loop"
    /\ i' = i + 1
    /\ UNCHANGED <<pdf, common_stores, now, text, lines, receipt_data, calls>>

\* the end of extract_items (sort, cut), extract_total and the return of
\* parse_receipt
Return ==
    /\ pc = "loop"
    /\ i = Len(lines)
    /\ items' = sort_items(items)
    /\ receipt_data' = [receipt_data EXCEPT
            !.items = truncate(items'),
            !.total_amount = extract_total(lines)]
    /\ calls' = Append(calls, [text |-> text, day |-> now, result |-> receipt_data'])
    /\ pc' = "done"
    /\ UNCHANGED <<pdf, common_stores, now, text, lines, i, trace>>

\* the day changes between two calls
Tick ==
    /\ pc \in {"idle", "done"}
    /\ now < MaxDay
    /\ now' = now + 1
    /\ UNCHANGED <<pdf, common_stores, pc, text, lines, i, items, receipt_data, trace, calls>>

Next == ParseReceipt \/ ProcessLine \/ Return

\* one call of parse_receipt on a text built from LinePool or of ExampleTexts
Spec == Init /\ [][Next]_vars

NextCalls == ParseAgain \/ ProcessLine \/ Return \/ Tick

\* up to MaxCalls calls on one parser, the day changing in between
SpecCalls == Init /\ [][NextCalls]_vars


\* return "", None
EmptyPair == [full_text |-> "", images |-> None]

\* extract_text_from_pdf(pdf_bytes) up to the try statement; without
\* PDF_SUPPORT st.error and return "", None
ExtractTextFromPdf ==
    /\ pdf.at = "idle"
    /\ \E support \in BOOLEAN, pages \in Documents, failure \in Failures :
           pdf' = [pdf EXCEPT !.PDF_SUPPORT = support, !.pages = pages, !.failure = failure,
                              !.at = IF support THEN "create" ELSE "returned",
                              !.st_errors = IF support THEN 0 ELSE 1,
                              !.returned = EmptyPair]
    /\ UNCHANGED <<common_stores, now, pc, text, lines, i, items, receipt_data, trace, calls>>

\* with tempfile.NamedTemporaryFile(delete=False, suffix='.pdf') as tmp_file
CreateTempFile ==
    /\ pdf.at = "create"
    /\ pdf' = IF pdf.failure.point = "create"
              THEN [pdf EXCEPT !.at = "except"]
              ELSE [pdf EXCEPT !.tmp_file = "exists", !.at = "write"]
    /\ UNCHANGED <<common_stores, now, pc, text, lines, i, items, receipt_data, trace, calls>>

\* the body of the with statement: tmp_file.write(pdf_bytes) and
\* tmp_file_path = tmp_file.name; when write raises, the with statement
\* closes the file, which delete=False leaves in place, and the exception
\* reaches the outer except clause, the inner try not yet entered
WriteTempFile ==
    /\ pdf.at = "write"
    /\ pdf' = IF pdf.failure.point = "write"
              THEN [pdf EXCEPT !.at = "except"]
              ELSE [pdf EXCEPT !.tmp_file_path = TRUE, !.at = "open"]
    /\ UNCHANGED <<common_stores, now, pc, text, lines, i, items, receipt_data, trace, calls>>

\* doc = fitz.open(tmp_file_path); full_text = ""; images = []
OpenDocument ==
    /\ pdf.at = "open"
    /\ pdf' = IF pdf.failure.point = "open"
              THEN [pdf EXCEPT !.raised = TRUE, !.at = "finally"]
              ELSE [pdf EXCEPT !.doc = "open", !.full_text = "", !.images = <<>>,
                               !.page_num = 0, !.at = "pages"]
    /\ UNCHANGED <<common_stores, now, pc, text, lines, i, items, receipt_data, trace, calls>>

\* extract_text_from_image(img): the text of the OCR, or st.error and ""
\* when it raises
extract_text_from_image(n) == IF pdf.failure = [point |-> "ocr", page |-> n] THEN "" ELSE pdf.pages[n].ocr_text

\* one iteration of "for page_num in range(len(doc))", for the page n
ProcessPage ==
    /\ pdf.at = "pages"
    /\ pdf.page_num < Len(pdf.pages)
    /\ \E n \in {pdf.page_num + 1} :
           pdf' = IF pdf.failure = [point |-> "get_text", page |-> n]
                  THEN [pdf EXCEPT !.raised = TRUE, !.at = "finally"]
                  ELSE IF strip(pdf.pages[n].page_text) # ""
                  THEN [pdf EXCEPT !.full_text = @ \o pdf.pages[n].page_text \o "\n", !.page_num = n]
                  ELSE IF \/ pdf.failure = [point |-> "get_pixmap", page |-> n]
                          \/ pdf.failure = [point |-> "image_open", page |-> n]
                  THEN [pdf EXCEPT !.raised = TRUE, !.at = "finally"]
                  ELSE [pdf EXCEPT !.images = Append(@, n),
                                   !.full_text = @ \o extract_text_from_image(n) \o "\n",
                                   !.st_errors = IF pdf.failure = [point |-> "ocr", page |-> n]
                                                 THEN @ + 1 ELSE @,
                                   !.page_num = n]
    /\ UNCHANGED <<common_stores, now, pc, text, lines, i, items, receipt_data, trace, calls>>

\* doc.close() and return full_text, images if images else None: the value
\* is kept while the finally clause runs
CloseDocument ==
    /\ pdf.at = "pages"
    /\ pdf.page_num = Len(pdf.pages)
    /\ pdf' = IF pdf.failure.point = "close"
              THEN [pdf EXCEPT !.raised = TRUE, !.at = "finally"]
              ELSE [pdf EXCEPT !.doc = "closed", !.at = "finally",
                               !.returned = [full_text |-> pdf.full_text,
                                             images |-> IF pdf.images # <<>> THEN [none |-> FALSE, list |-> pdf.images]
                                                        ELSE None]]
    /\ UNCHANGED <<common_stores, now, pc, text, lines, i, items, receipt_data, trace, calls>>

\* finally: if os.path.exists(tmp_file_path): os.unlink(tmp_file_path); then
\* the return takes place or the exception goes on to the except clause
Finally ==
    /\ pdf.at = "finally"
    /\ pdf' = [pdf EXCEPT !.tmp_file = IF pdf.tmp_file = "exists" THEN "deleted" ELSE @,
                          !.at = IF pdf.raised THEN "except" ELSE "returned"]
    /\ UNCHANGED <<common_stores, now, pc, text, lines, i, items, receipt_data, trace, calls>>

\* except Exception as e: st.error(...) and return "", None
Except ==
    /\ pdf.at = "except"
    /\ pdf' = [pdf EXCEPT !.st_errors = @ + 1, !.returned = EmptyPair, !.at = "returned"]
    /\ UNCHANGED <<common_stores, now, pc, text, lines, i, items, receipt_data, trace, calls>>

NextPdf ==
    \/ ExtractTextFromPdf \/ CreateTempFile \/ WriteTempFile \/ OpenDocument
    \/ ProcessPage \/ CloseDocument \/ Finally \/ Except

\* one call of extract_text_from_pdf on a document of Documents with a
\* failure of Failures
SpecPdf == Init /\ [][NextPdf]_vars

(***************************************************************************)
(* Properties                                                              *)
(***************************************************************************)

\* the line loop accepted line n: it appended trace[n].item
Accepted(n) == trace[n].via \in {"pattern", "fallback"}

\* the item list of the returned receipt_data
Result == receipt_data.items

\* C1 (as claimed): when the same line text occurs twice in the line list,
\* processing the second occurrence appends no record.
C1_SecondOccurrenceAppendsNothing ==
    \A j, k \in 1..Len(trace) :
        (j < k /\ lines[j] = lines[k]) => ~Accepted(k)

\* C2 (as claimed): the WALMART example yields exactly the two items BANANAS
\* 1.29 and BREAD 3.00.
C2_WalmartExample ==
    (pc = "done" /\ text = WalmartText) =>
        /\ Len(Result) = 2
        /\ {Result[n] : n \in 1..Len(Result)}
               = {[name |-> "BANANAS", price |-> "$1.29"], [name |-> "BREAD", price |-> "$3.00"]}

\* C2 (amended): the WALMART example yields no item: no line of it is
\* accepted, BANANAS 1.29 and BREAD 2X1.50 3.00 being skipped by the line
\* filter as upper-case lines of at most three words.
C2_WalmartNoItem ==
    /\ (text = WalmartText /\ pc \in {"loop", "done"}) =>
            /\ \A n \in 1..Len(trace) : ~Accepted(n)
            /\ \A n \in {4, 5} : n <= Len(trace) => trace[n].via = "skip"
    /\ (text = WalmartText /\ pc = "done") => Result = <<>>

\* the seven lines of the example have been processed and the call returned
C2_Witness ==
    /\ pc = "done"
    /\ text = WalmartText
    /\ Len(lines) = 7
    /\ Len(trace) = 7
    /\ lines[4] = "BANANAS 1.29"

\* C3 (as claimed): the six-line form and the single-line form of Milk 1.50,
\* Bread 2.00, Subtotal 3.50 yield exactly two items, Milk then Bread.
C3_MilkThenBread ==
    (pc = "done" /\ text \in {SixLineText, SubtotalText}) =>
        /\ Len(Result) = 2
        /\ Result[1].name = "Milk"
        /\ Result[2].name = "Bread"

\* C3 (amended): the single-line form yields exactly two items, Bread $2.00
\* then Milk $1.50, and no item for the subtotal line; the six-line form
\* yields no item.
C3_SubtotalSuppressed ==
    /\ (pc = "done" /\ text = SubtotalText) =>
            Result = <<[name |-> "Bread", price |-> "$2.00"], [name |-> "Milk", price |-> "$1.50"]>>
    /\ (pc = "loop" /\ text = SubtotalText /\ i = 3) => trace[3].via = "skip"
    /\ (pc = "done" /\ text = SixLineText) => Result = <<>>

\* the single-line form has been parsed and the subtotal line was skipped
C3_Witness ==
    /\ pc = "done"
    /\ text = SubtotalText
    /\ Len(trace) = 3
    /\ trace[3].via = "skip"
    /\ Len(Result) = 2

\* C4 (as claimed): every accepted item has an amount a with
\* 0.01 <= a <= 999.99 (amounts in thousandths).
C4_AmountAtMost999 ==
    /\ \A n \in 1..Len(items) : price_key(items[n]) \in 10..999990
    /\ \A n \in 1..Len(Result) : price_key(Result[n]) \in 10..999990

\* C4 (amended): every accepted item, through an item pattern or through
\* the '$' fallback, has an amount a with 0.01 <= a <= 2000.00; of the
\* lines Laptop 2000.01, Tv $2500.00 each, Gum 0.00 and Pen 1999.999 only
\* the last is accepted, as $2000.00.
C4_AmountAtMost2000 ==
    /\ \A n \in 1..Len(items) : price_key(items[n]) \in 10..2000000
    /\ \A n \in 1..Len(Result) : price_key(Result[n]) \in 10..2000000
    /\ (pc = "done" /\ text = RangeText) => Result = <<[name |-> "Pen", price |-> "$2000.00"]>>

\* an item above 999.99 was accepted and the lines out of range were left out
C4_Witness ==
    /\ pc = "done"
    /\ text = RangeText
    /\ Len(trace) = 4
    /\ ~Accepted(1) /\ ~Accepted(2) /\ ~Accepted(3) /\ Accepted(4)
    /\ \E n \in 1..Len(Result) : price_key(Result[n]) > 999990

\* the line whose item is it: the place of the item in the order of acceptance
AcceptIndex(item) == CHOOSE n \in 1..Len(trace) : Accepted(n) /\ trace[n].item = item

\* C5 (as claimed): the returned list is in the order of acceptance: an item
\* of an earlier line precedes an item of a later line.
C5_LineOrder ==
    pc = "done" =>
        \A a, b \in 1..Len(Result) :
            a < b => AcceptIndex(Result[a]) < AcceptIndex(Result[b])

\* C5 (amended): the returned list is in descending order of price; items
\* of the same price are in the order of acceptance.
C5_PriceOrder ==
    pc = "done" =>
        \A a, b \in 1..Len(Result) :
            a < b =>
                \/ price_key(Result[a]) > price_key(Result[b])
                \/ /\ price_key(Result[a]) = price_key(Result[b])
                   /\ AcceptIndex(Result[a]) < AcceptIndex(Result[b])

\* a result in which the sort moved an item before one of an earlier line,
\* and which holds two items of the same price
C5_Witness ==
    /\ pc = "done"
    /\ \E a, b \in 1..Len(Result) :
            a < b /\ AcceptIndex(Result[a]) > AcceptIndex(Result[b])
    /\ \E a, b \in 1..Len(Result) :
            a < b /\ price_key(Result[a]) = price_key(Result[b])

\* C6 (as claimed): every accepted item has a name of at least two
\* characters that is not purely numeric, on both paths.
C6_NameInvariant ==
    \A n \in 1..Len(items) :
        /\ Len(items[n].name) >= 2
        /\ ~isdigit(items[n].name)

\* C7 (as claimed): parsing the same text twice on one parser yields
\* identical output.
C7_SameTextSameOutput ==
    \A a, b \in 1..Len(calls) :
        calls[a].text = calls[b].text => calls[a].result = calls[b].result

\* C7 (amended): two parses of the same text on one parser, other texts
\* parsed in between or not, agree in every field but the date; the dates
\* agree too unless the calls are made on different days and the text holds
\* no date, in which case each is the day of its call.  A call leaves
\* common_stores unchanged and starts from an empty item list.
C7_SameTextSameOutputButDate ==
    /\ \A a, b \in 1..Len(calls) :
          calls[a].text = calls[b].text =>
              /\ calls[a].result.store_name = calls[b].result.store_name
              /\ calls[a].result.total_amount = calls[b].result.total_amount
              /\ calls[a].result.items = calls[b].result.items
              /\ calls[a].result.raw_text = calls[b].result.raw_text
              /\ \/ calls[a].result.date = calls[b].result.date
                 \/ /\ calls[a].day # calls[b].day
                    /\ calls[a].result.date = strftime(calls[a].day)
                    /\ calls[b].result.date = strftime(calls[b].day)
    /\ common_stores = InitialStores
    /\ (pc = "loop" /\ i = 0) => items = <<>>

\* the same text parsed on two days with another text parsed in between,
\* the two results differing in the date
C7_Witness ==
    /\ Len(calls) = 3
    /\ calls[1].text = calls[3].text
    /\ calls[2].text # calls[1].text
    /\ calls[1].result.items # <<>>
    /\ calls[1].result.date # calls[3].result.date

\* what the line loop does with a line when no item has been accepted yet
Alone(line) == process_line(<<>>, line)

\* the items a and b are the same to the duplicate check
SameItem(a, b) == lower(a.name) = lower(b.name) /\ a.price = b.price

\* line k on its own yields the item the accepted line j yielded
YieldsItemOf(j, k) ==
    /\ Accepted(j)
    /\ Alone(lines[k]).via \in {"pattern", "fallback"}
    /\ Alone(lines[k]).items[1] = trace[j].item

\* C8 (as claimed): a line whose text differs from that of an accepted line
\* and that yields the same name and price is accepted as a separate item.
C8_DistinctLinesBothAccepted ==
    \A j, k \in 1..Len(trace) :
        (j < k /\ lines[j] # lines[k] /\ YieldsItemOf(j, k)) => Accepted(k)

\* line j is accepted with the item r holds, r being what the line loop does
\* with another line on its own
YieldsSame(j, r) ==
    /\ Accepted(j)
    /\ r.via \in {"pattern", "fallback"}
    /\ r.items[1] = trace[j].item

\* the line k processed last is not accepted with the item of an earlier
\* line that it yields on its own (r: Alone(lines[k]))
NotAgain(k, r) ==
    \A j \in 1..(k - 1) :
        YieldsSame(j, r) => ~(Accepted(k) /\ trace[k].item = trace[j].item)

\* C8 (amended): the duplicate check goes by name (in lower case) and
\* formatted price, not by line text: a line that yields the name and price
\* of an accepted line is not accepted as that item again, also when the two
\* texts differ, and no two accepted records agree in name and price.  The
\* first part is stated of the line processed last: every line is that line
\* in the state the loop reaches with it.
C8_SameNameAndPriceOnce ==
    /\ trace # <<>> => NotAgain(Len(trace), Alone(lines[Len(trace)]))
    /\ \A j, k \in 1..Len(trace) :
          (j < k /\ Accepted(j) /\ Accepted(k)) => ~SameItem(trace[j].item, trace[k].item)

\* a line of another text than an accepted line, yielding the same name and
\* price, has been left out
C8_Witness ==
    \E j, k \in 1..Len(trace) :
        /\ j < k
        /\ lines[j] # lines[k]
        /\ YieldsItemOf(j, k)
        /\ trace[k].via = "none"

RECURSIVE RunningTotal(_)
\* the sum of the amounts of the items accepted from the first n lines, in
\* thousandths
RunningTotal(n) ==
    IF n = 0 THEN 0
    ELSE RunningTotal(n - 1) + (IF Accepted(n) THEN price_key(trace[n].item) ELSE 0)

\* C9 (as claimed): no line is accepted with a name of under six characters
\* and a price within 0.05 of the running total of the earlier lines.
C9_RunningTotalProximity ==
    \A k \in 1..Len(trace) :
        Accepted(k) =>
            ~(/\ Len(trace[k].item.name) < 6
              /\ price_key(trace[k].item) - RunningTotal(k - 1) \in -50..50)

\* the line k processed last, which on its own yields an item (r:
\* Alone(lines[k])), is accepted with that item unless an item of the same
\* name and price was accepted from an earlier line
AcceptedAsAlone(k, r) ==
    (/\ r.via \in {"pattern", "fallback"}
     /\ \A j \in 1..(k - 1) : Accepted(j) => ~SameItem(trace[j].item, r.items[1]))
    => (Accepted(k) /\ trace[k].item = r.items[1])

\* C9 (amended): acceptance does not depend on a running total: a line that
\* on its own yields an item is accepted with that item whenever no item of
\* the same name and price was accepted from an earlier line; after
\* 'Milk 1.50' and 'Bread 2.00' the line 'Sum 3.50' yields the item Sum.
\* The first part is stated of the line processed last: every line is that
\* line in the state the loop reaches with it.
C9_NoRunningTotal ==
    /\ trace # <<>> => AcceptedAsAlone(Len(trace), Alone(lines[Len(trace)]))
    /\ (pc = "done" /\ text = SumText) =>
            Result = <<[name |-> "Sum", price |-> "$3.50"],
                       [name |-> "Bread", price |-> "$2.00"],
                       [name |-> "Milk", price |-> "$1.50"]>>

\* the line 'Sum 3.50', its price the running total, has been accepted
C9_Witness ==
    /\ pc = "done"
    /\ text = SumText
    /\ Len(trace) = 3
    /\ Accepted(3)
    /\ price_key(trace[3].item) = RunningTotal(2)

IsBlank(t) == \A c \in 1..Len(t) : Ch(t, c) \in SpaceChars

\* C11: parsing an empty or whitespace-only text is no error and yields an
\* empty item list: the line list is empty, no line is processed, and the
\* call returns the store name "Unknown Store", the current date, the total
\* "Not found" and no item.
C11_EmptyInput ==
    IsBlank(text) =>
        /\ pc # "raised"
        /\ lines = <<>> /\ items = <<>> /\ trace = <<>>
        /\ pc = "done" =>
              receipt_data = [store_name |-> "Unknown Store", date |-> strftime(now),
                              total_amount |-> "Not found", items |-> <<>>, raw_text |-> text]

\* the call on a text of blanks, tabs and line breaks has returned
C11_Witness ==
    /\ pc = "done"
    /\ text = "  \n\t\n"
    /\ Result = <<>>
    /\ receipt_data.store_name = "Unknown Store"

\* the number of characters of the line other than digits, whitespace,
\* hyphens and periods
OtherChars(line) ==
    Cardinality({c \in 1..Len(line) : Ch(line, c) \notin DigitChars \cup SpaceChars \cup {"-", "."}})

\* C12: a line with fewer than 3 characters other than digits, whitespace,
\* hyphen and period, such as a line that is a 12-digit UPC code, is skipped
\* by the line filter and yields no item.
C12_BarcodeFiltered ==
    \A n \in 1..Len(trace) :
        OtherChars(lines[n]) < 3 => (trace[n].via = "skip" /\ ~Accepted(n))

\* the call on BarcodeText has returned: the UPC line and the two lines with
\* two other characters were skipped, the line with three was accepted
C12_Witness ==
    /\ pc = "done"
    /\ text = BarcodeText
    /\ lines[1] = "036000291452"
    /\ [n \in 1..Len(trace) |-> trace[n].via] = <<"skip", "skip", "skip", "pattern">>
    /\ Result = <<[name |-> "abc", price |-> "$12.50"]>>

\* C13: processing one line appends at most one record to the item list and
\* leaves the records before it as they are, so that after k lines the list
\* holds at most k records.
C13_OneRecordPerLine ==
    /\ [](Len(items) <= i)
    /\ [][i' = i + 1 => /\ Len(items') \in {Len(items), Len(items) + 1}
                        /\ SubSeq(items', 1, Len(items)) = items]_vars

\* a line that several patterns match has been processed and has appended
\* one record
C13_Witness ==
    /\ pc = "loop"
    /\ i = 1
    /\ lines[1] = "Apples 2 @ 1.50 3.00"
    /\ trace[1].via = "pattern"
    /\ items = <<[name |-> "Apples 2 @ 1.50", price |-> "$3.00"]>>

\* C14 (as claimed): every record carries the text of the line it was
\* produced from and, next to name and amount, a further entry for the time
\* of capture.
C14_RecordCarriesLineAndTime ==
    \A k \in 1..Len(trace) :
        Accepted(k) =>
            /\ \E f \in DOMAIN trace[k].item : trace[k].item[f] = lines[k]
            /\ DOMAIN trace[k].item \ {"name", "price"} # {}

\* p is '$', one or more digits, a period and two digits
IsFormattedPrice(p) ==
    /\ Len(p) >= 5
    /\ Ch(p, 1) = "$"
    /\ Ch(p, Len(p) - 2) = "."
    /\ \A c \in 2..Len(p) : c # Len(p) - 2 => Ch(p, c) \in DigitChars

\* the record has the entries name and price and no other, the price
\* formatted
IsNameAndPrice(item) ==
    /\ DOMAIN item = {"name", "price"}
    /\ item.name # ""
    /\ IsFormattedPrice(item.price)

\* C14 (amended): every record, in the list of the loop and in the returned
\* list, has exactly the two entries name and price, the price formatted as
\* '$' and a number with two decimals; no entry holds the text of the line
\* the record was produced from, and there is no timestamp.
C14_RecordIsNameAndPrice ==
    /\ \A n \in 1..Len(items) : IsNameAndPrice(items[n])
    /\ \A n \in 1..Len(Result) : IsNameAndPrice(Result[n])
    /\ \A k \in 1..Len(trace) :
          Accepted(k) => \A f \in DOMAIN trace[k].item : trace[k].item[f] # lines[k]

\* a call has returned records from both paths, the pattern loop and the
\* liberal approach
C14_Witness ==
    /\ pc = "done"
    /\ Len(Result) = 2
    /\ \E j, k \in 1..Len(trace) : trace[j].via = "pattern" /\ trace[k].via = "fallback"

\* the total vocabulary of the claim C15
TotalVocabulary == {"total", "subtotal", "tax", "balance"}

\* C15: a line that contains total, subtotal, tax or balance anywhere, in
\* any letter case, is skipped by the line filter and yields no item.
C15_TotalVocabularySkipped ==
    \A n \in 1..Len(trace) :
        (\E t \in TotalVocabulary : Contains(lower(lines[n]), t))
            => (trace[n].via = "skip" /\ ~Accepted(n))

\* the call on VocabularyText has returned: 'TOTAL 12.34', 'Order Subtotal
\* 3.50', 'Taxi ride 12.00' and 'New Balance 5.00' were skipped
C15_Witness ==
    /\ pc = "done"
    /\ text = VocabularyText
    /\ lines[2] = "Order Subtotal 3.50"
    /\ [n \in 1..Len(trace) |-> trace[n].via] = <<"skip", "skip", "skip", "skip", "pattern">>
    /\ Result = <<[name |-> "Milk", price |-> "$1.50"]>>

\* t is the end of s
EndsWith(s, t) == Len(t) <= Len(s) /\ SubSeq(s, Len(s) - Len(t) + 1, Len(s)) = t

\* the amounts of a line: the numbers with two decimals, from left to right
Amounts(line) == re_findall(any_price_pattern, 2, 4, line)

\* the line k processed last, whose amounts are amounts, is accepted with
\* the last of them if it holds more than one and ends in one, or is
\* accepted by the liberal approach
LastAmountWins(k, amounts) ==
    (/\ Accepted(k)
     /\ Len(amounts) > 1
     /\ (trace[k].via = "fallback" \/ EndsWith(lines[k], amounts[Len(amounts)])))
    => price_key(trace[k].item) = float(amounts[Len(amounts)]).mills

FirstMatching(line) ==
    LET found == {q : q \in {p \in 1..Len(item_patterns) : re_search(item_patterns[p].els, line).found}}
    IN  IF found = {} THEN 0 ELSE CHOOSE p \in found : \A o \in found : p <= o

\* the record of the accepted line k comes from the first candidate of the
\* line: from the first pattern that matches it (p, 0 if none does), or from
\* the liberal approach if no pattern matches
FromFirstCandidate(k, p) ==
    Accepted(k) => \/ trace[k].via = "pattern" /\ trace[k].pat = p
                   \/ trace[k].via = "fallback" /\ p = 0

\* C17 (as claimed): every line is visited once, in order, and ends in one
\* terminal state (skipped, nothing appended, or accepted); a line whose
\* candidate is rejected is not retried, so that the record of an accepted
\* line comes from the first candidate of the line.  Stated of the line
\* processed last: every line is that line in the state the loop reaches
\* with it.
C17_OneVisitNoRetry ==
    /\ Len(trace) = i
    /\ \A n \in 1..Len(trace) : trace[n].via \in {"skip", "none", "pattern", "fallback"}
    /\ trace # <<>> => FromFirstCandidate(Len(trace), FirstMatching(lines[Len(trace)]))

\* the tests of is_likely_item_line in the order of the code
NoiseRules == <<"length", "numeric", "terms", "header", "marks", "date", "time">>

\* the test named rule meets the line
RuleMeets(rule, line) ==
    CASE rule = "length"  -> too_short_or_long(line)
      [] rule = "numeric" -> mostly_numeric(line)
      [] rule = "terms"   -> has_skip_term(strip(lower(line)))
      [] rule = "header"  -> looks_like_header(line)
      [] rule = "marks"   -> has_format_mark(strip(lower(line)))
      [] rule = "date"    -> is_date_line(line)
      [] rule = "time"    -> is_time_line(strip(lower(line)))

\* for each test whether it meets the line
RuleVerdicts(line) ==
    <<RuleMeets("length", line), RuleMeets("numeric", line), RuleMeets("terms", line),
      RuleMeets("header", line), RuleMeets("marks", line), RuleMeets("date", line),
      RuleMeets("time", line)>>

\* the orders of evaluation that are checked: the order of the code rotated
\* and the same reversed, so that every test comes first in one order and
\* last in another, and every two tests come in both orders
RuleOrders ==
    LET n == Len(NoiseRules)
        Rotated(d) == [k \in 1..n |-> ((k + d - 1) % n) + 1]
    IN  {Rotated(d) : d \in 0..(n - 1)} \cup {[k \in 1..n |-> Rotated(d)[n + 1 - k]] : d \in 0..(n - 1)}

RECURSIVE FirstHit(_, _, _)
\* the tests evaluated in the given order from its k-th on, the evaluation
\* ending at the first test that meets the line (hits: RuleVerdicts of the
\* line): that test, 0 if none meets it
FirstHit(hits, order, k) ==
    IF k > Len(order) THEN 0
    ELSE IF hits[order[k]] THEN order[k]
    ELSE FirstHit(hits, order, k + 1)

\* the line k processed last was skipped exactly if a test meets it, and
\* under every order the evaluation comes to that verdict
SameVerdict(k, hits) ==
    /\ (trace[k].via = "skip") = (\E r \in 1..Len(hits) : hits[r])
    /\ \A order \in RuleOrders : (FirstHit(hits, order, 1) # 0) = (trace[k].via = "skip")

HasDigitRun(s, n) ==
    \E a \in 1..(Len(s) - n + 1) : \A c \in a..(a + n - 1) : Ch(s, c) \in DigitChars

\* C19 (as claimed): no accepted name holds a run of ten or more digits, and
\* 'Milk 0360002914 1.50' yields the name 'Milk'.
C19_NoCodeInName ==
    \A k \in 1..Len(trace) :
        Accepted(k) =>
            /\ ~HasDigitRun(trace[k].item.name, 10)
            /\ lines[k] = "Milk 0360002914 1.50" => trace[k].item.name = "Milk"

\* the line k processed last, whose words are words, accepted through
\* pattern 1 or 2 (the name from the start of the line up to the price): every
\* word between the first word and the price that is a run of ten or more
\* digits is in the name
KeepsInnerCodes(k, words) ==
    (Accepted(k) /\ trace[k].pat \in {1, 2}) =>
        \A w \in 2..(Len(words) - 1) :
            (isdigit(words[w]) /\ Len(words[w]) >= 10) => Contains(trace[k].item.name, words[w])

\* the line k, if its text is line, is accepted with the given name and
\* price unless an item of that name and price was accepted before it
YieldsName(k, line, name, price) ==
    (/\ lines[k] = line
     /\ \A j \in 1..(k - 1) :
            Accepted(j) => ~SameItem(trace[j].item, [name |-> name, price |-> price]))
    => (Accepted(k) /\ trace[k].item = [name |-> name, price |-> price])

\* C19 (amended): only a number at the start of the captured name is
\* removed, whatever its length, and only once; a run of ten or more digits
\* elsewhere stays in the name.  'Milk 0360002914 1.50' yields the name 'Milk
\* 0360002914', '0360002914 Bread 2.00' yields 'Bread', '1 0360002914 Eggs
\* 2.50' yields '0360002914 Eggs', and the liberal approach yields 'Tea
\* 0360002914' for 'Tea 0360002914 $1.50 each', each unless an item of that
\* name and price was accepted before.  The general part is stated of the
\* line processed last.
C19_LeadingCodeOnly ==
    /\ trace # <<>> => KeepsInnerCodes(Len(trace), split_words(lines[Len(trace)]))
    /\ \A k \in 1..Len(trace) :
          /\ YieldsName(k, "Milk 0360002914 1.50", "Milk 0360002914", "$1.50")
          /\ YieldsName(k, "0360002914 Bread 2.00", "Bread", "$2.00")
          /\ YieldsName(k, "1 0360002914 Eggs 2.50", "0360002914 Eggs", "$2.50")
          /\ YieldsName(k, "Tea 0360002914 $1.50 each", "Tea 0360002914", "$1.50")

\* the call on CodeText has returned with the four names, two of them with
\* the code of ten digits
C19_Witness ==
    /\ pc = "done"
    /\ text = CodeText
    /\ [n \in 1..Len(trace) |-> trace[n].item.name]
           = <<"Milk 0360002914", "Bread", "0360002914 Eggs", "Tea 0360002914">>
    /\ HasDigitRun(Result[1].name, 10)

\* no test of the line filter but the length test meets the line (hits:
\* RuleVerdicts of the line)
OnlyLengthLeft(hits) == \A r \in 2..Len(hits) : ~hits[r]

\* the line k processed last: skipped if shorter than 3, and not skipped if
\* it has 3 characters or more and no other test meets it
NoLongLimit(k, hits) ==
    /\ Len(strip(lines[k])) < 3 => trace[k].via = "skip"
    /\ (Len(strip(lines[k])) >= 3 /\ OnlyLengthLeft(hits)) => trace[k].via # "skip"

\* C20 (as claimed): a line whose trimmed length is below 3 yields no item,
\* and a line of length 3 or more is not discarded for its length, however
\* long it is.
C20_OnlyShortLinesDiscarded ==
    trace # <<>> => NoLongLimit(Len(trace), RuleVerdicts(lines[Len(trace)]))

\* the line k processed last: skipped if shorter than 3 or longer than 100,
\* and not skipped if it has between 3 and 100 characters and no other test
\* meets it
LengthLimits(k, hits) ==
    /\ (Len(strip(lines[k])) < 3 \/ Len(strip(lines[k])) > 100)
           => (trace[k].via = "skip" /\ ~Accepted(k))
    /\ (Len(strip(lines[k])) \in 3..100 /\ OnlyLengthLeft(hits)) => trace[k].via # "skip"

\* C20 (amended): a line whose trimmed length is below 3 or above 100 is
\* skipped and yields no item; a line of length 3 to 100 is not discarded for
\* its length.  Stated of the line processed last: every line is that line
\* in the state the loop reaches with it.
C20_LengthBetween3And100 ==
    trace # <<>> => LengthLimits(Len(trace), RuleVerdicts(lines[Len(trace)]))

\* the call on LengthText has returned: the line of 101 characters was
\* skipped, the line of 100 accepted, the line of two skipped
C20_Witness ==
    /\ pc = "done"
    /\ text = LengthText
    /\ [n \in 1..Len(trace) |-> Len(lines[n])] = <<101, 100, 2>>
    /\ [n \in 1..Len(trace) |-> trace[n].via] = <<"skip", "pattern", "skip">>
    /\ Len(Result) = 1 /\ Result[1].price = "$12.50"

\* C21 (as claimed): no accepted name holds, in lower case, an entry of
\* skip_terms.
C21_NoSkipTermInName ==
    \A k \in 1..Len(trace) :
        Accepted(k) =>
            \A t \in 1..Len(skip_terms) : ~Contains(lower(trace[k].item.name), skip_terms[t])

\* no two records of the list have the same name, compared in lower case,
\* and the same price
NoTwoSame(list) ==
    \A a, b \in 1..Len(list) : a < b => ~SameItem(list[a], list[b])

\* C22: at every point of the line loop and in the returned list no two
\* items have both the same name, compared in lower case, and the same
\* formatted price, whichever of the two paths appended them.
C22_NoTwoSameItems ==
    /\ NoTwoSame(items)
    /\ NoTwoSame(Result)

\* the call on DuplicateText has returned: the line a pattern matched was
\* left out as a duplicate of an item of the liberal approach, and the other
\* way round, and so was the name in capitals
C22_Witness ==
    /\ pc = "done"
    /\ text = DuplicateText
    /\ [n \in 1..Len(trace) |-> trace[n].via] = <<"fallback", "none", "pattern", "none", "none">>
    /\ Alone(lines[2]).via = "pattern" /\ Alone(lines[4]).via = "fallback"
    /\ Result = <<[name |-> "Tea", price |-> "$1.50"], [name |-> "Milk", price |-> "$1.50"]>>

\* C23: the list extract_items returns is sorted by price in non-increasing
\* order, neighbours of the same price are in the order of their acceptance,
\* and the list holds the accepted items, each once.
C23_SortedStable ==
    pc = "done" =>
        /\ \A n \in 1..(Len(Result) - 1) :
              \/ price_key(Result[n]) > price_key(Result[n + 1])
              \/ /\ price_key(Result[n]) = price_key(Result[n + 1])
                 /\ AcceptIndex(Result[n]) < AcceptIndex(Result[n + 1])
        /\ Len(Result) <= Cardinality({k \in 1..Len(trace) : Accepted(k)})
        /\ \A n \in 1..Len(Result) : \E k \in 1..Len(trace) : Accepted(k) /\ trace[k].item = Result[n]
        /\ Cardinality({Result[n] : n \in 1..Len(Result)}) = Len(Result)

\* Milk and Tea, both 1.50, were accepted before Bread, 2.00: the returned
\* list has Bread first and Milk before Tea
C23_Witness ==
    /\ pc = "done"
    /\ lines = <<"Milk 1.50", "Tea $1.50 each", "Bread 2.00">>
    /\ Result = <<[name |-> "Bread", price |-> "$2.00"],
                  [name |-> "Milk", price |-> "$1.50"],
                  [name |-> "Tea", price |-> "$1.50"]>>

\* the trace entries whose item is not in the returned list
Dropped == {k \in 1..Len(trace) : Accepted(k) /\ \A n \in 1..Len(Result) : Result[n] # trace[k].item}

\* C24: extract_items returns at most MaxItems items; when more were
\* accepted it returns exactly MaxItems of them, and no dropped item has a
\* higher price than a returned one; when no more were accepted none is dropped.
C24_AtMostFiftyHighest ==
    pc = "done" =>
        /\ Len(Result) <= MaxItems
        /\ Len(Result) = IF Len(items) > MaxItems THEN MaxItems ELSE Len(items)
        /\ Len(items) <= MaxItems => Dropped = {}
        /\ \A k \in Dropped : \A n \in 1..Len(Result) :
              price_key(trace[k].item) <= price_key(Result[n])

\* fifty-two items were accepted: Pea and Oat, 1.00, are dropped, while
\* Tea, 1.00, accepted before them, is the last of the fifty returned
C24_Witness ==
    /\ pc = "done"
    /\ text = ManyItemsText
    /\ Len(items) = 52
    /\ Len(Result) = MaxItems
    /\ Result[MaxItems] = [name |-> "Tea", price |-> "$1.00"]
    /\ Result[1] = [name |-> "Nut", price |-> "$1.49"]
    /\ {trace[k].item.name : k \in Dropped} = {"Pea", "Oat"}

\* C25: a line that has a cased letter, no lower-case letter and at most
\* three whitespace-separated tokens never yields an item, whatever price it
\* carries, neither in its place in the list nor on its own.
C25_UpperCaseLineNoItem ==
    \A k \in 1..Len(trace) :
        (isupper(lines[k]) /\ Len(split_words(lines[k])) <= 3) =>
            /\ ~Accepted(k)
            /\ Alone(lines[k]).items = <<>>

\* 'ORGANIC MILK 3.99' and 'EGGS $2.50' yield nothing, while the four tokens
\* of 'ORGANIC WHOLE MILK 3.99' and the mixed case of 'Organic Milk 3.99'
\* yield an item each
C25_Witness ==
    /\ pc = "done"
    /\ text = HeaderText
    /\ [n \in 1..Len(trace) |-> trace[n].via] = <<"skip", "pattern", "pattern", "skip">>
    /\ isupper(lines[2]) /\ Len(split_words(lines[2])) = 4
    /\ Result = <<[name |-> "ORGANIC WHOLE MILK", price |-> "$3.99"],
                  [name |-> "Organic Milk", price |-> "$3.99"]>>

\* the item list before the last processed line
ItemsBefore == IF Accepted(Len(trace)) THEN SubSeq(items, 1, Len(items) - 1) ELSE items

\* line k, the last processed one, whose pattern loop ended as r: the
\* liberal approach led to its item only if the loop left matched = False
\* and the line has a '$'; after matched = True the item list is the one the
\* pattern loop left; without a '$' and without an accepting pattern the
\* item list is unchanged
FallbackOnlyUnmatched(k, r) ==
    trace[k].via # "skip" =>
        /\ trace[k].via = "fallback" => (~r.matched /\ \E c \in 1..Len(lines[k]) : Ch(lines[k], c) = "$")
        /\ r.matched => (trace[k].via = "pattern" /\ items = r.items /\ Len(items) = Len(ItemsBefore) + 1)
        /\ (~r.matched /\ \A c \in 1..Len(lines[k]) : Ch(lines[k], c) # "$") =>
              (trace[k].via = "none" /\ items = ItemsBefore)

\* C26: the liberal approach runs for a line only if no item pattern led to
\* an accepted item for it and the line contains a '$': a line without '$'
\* that no pattern accepts yields no item, and a line accepted through a
\* pattern adds exactly the item of that pattern.
C26_FallbackOnlyUnmatchedWithDollar ==
    /\ \A k \in 1..Len(trace) :
          trace[k].via = "fallback" => \E c \in 1..Len(lines[k]) : Ch(lines[k], c) = "$"
    /\ (pc = "loop" /\ trace # <<>>) =>
          FallbackOnlyUnmatched(Len(trace), pattern_loop(ItemsBefore, lines[Len(trace)]))

\* 'Tea 1.50 each' has no '$' and yields nothing, 'Tea $1.50 each' yields Tea
\* by the liberal approach, 'Jam $2.50' has a '$' and is accepted by a
\* pattern, and 'Milk $1.50 each' yields nothing after 'Milk 1.50'
C26_Witness ==
    /\ pc = "loop"
    /\ lines = <<"Tea 1.50 each", "Tea $1.50 each", "Milk 1.50", "Jam $2.50", "Milk $1.50 each">>
    /\ [n \in 1..Len(trace) |-> trace[n].via] = <<"none", "fallback", "pattern", "pattern", "none">>
    /\ items = <<[name |-> "Tea", price |-> "$1.50"], [name |-> "Milk", price |-> "$1.50"],
                 [name |-> "Jam", price |-> "$2.50"]>>

\* the patterns whose leftmost match in the line captures an amount in
\* [0.01, 10000]
Qualifying(line) == {p \in 1..Len(total_patterns) : total_amount(line, p) # ""}

\* the amount of the line: that of its first qualifying pattern
LineTotal(line) == total_amount(line, CHOOSE p \in Qualifying(line) : \A o \in Qualifying(line) : p <= o)

\* the lines with a qualifying pattern
TotalLines == {k \in 1..Len(lines) : Qualifying(lines[k]) # {}}

\* C27: extract_total returns '$' and the amount of the bottom-most line
\* that has a qualifying match, in that line the amount of the first
\* pattern in list order that qualifies, and 'Not found' exactly when no
\* line has a qualifying match.
C27_BottomMostTotal ==
    pc = "done" =>
        /\ receipt_data.total_amount = "Not found" <=> TotalLines = {}
        /\ \A k \in TotalLines :
              (\A j \in TotalLines : j <= k) =>
                  receipt_data.total_amount = "$" \o LineTotal(lines[k])

\* the last two lines carry amounts out of the range; in 'Balance 5.00 total
\* 6.00' the first pattern, total, wins over balance, and the line wins over
\* 'Total 12.00' above it
C27_Witness ==
    /\ pc = "done"
    /\ text = TotalText
    /\ TotalLines = {1, 2}
    /\ Qualifying(lines[2]) = {1, 3}
    /\ total_amount(lines[2], 3) = "5.00"
    /\ receipt_data.total_amount = "$6.00"

\* the first FirstLines lines of the call
Top == 1..(IF Len(lines) < FirstLines THEN Len(lines) ELSE FirstLines)

\* line k contains a known store name
StoreLine(k) == \E s \in 1..Len(common_stores) : Contains(lower(lines[k]), common_stores[s])

\* line k is longer than 2 characters and not all digits
NameLine(k) == Len(lines[k]) > 2 /\ ~isdigit(lines[k])

\* C28: the store name is taken from the first 5 non-empty lines only: the
\* first of them that contains a known store name, in title case, whatever
\* the lines before it are; without such a line the first of them that is
\* longer than 2 characters and not all digits, in title case; without such
\* a line 'Unknown Store'.
C28_StoreNameFromFirstFive ==
    pc \in {"loop", "done"} =>
        /\ \A k \in Top :
              (StoreLine(k) /\ \A j \in 1..(k - 1) : ~StoreLine(j)) =>
                  receipt_data.store_name = title(lines[k])
        /\ (\A k \in Top : ~StoreLine(k)) =>
              /\ \A k \in Top :
                    (NameLine(k) /\ \A j \in 1..(k - 1) : ~NameLine(j)) =>
                        receipt_data.store_name = title(lines[k])
              /\ (\A k \in Top : ~NameLine(k)) => receipt_data.store_name = "Unknown Store"

\* 'WALMART supercenter' in the second line wins over 'Receipt 7' before it
C28_Witness ==
    /\ pc = "done"
    /\ text = SecondLineStoreText
    /\ NameLine(1) /\ ~StoreLine(1) /\ StoreLine(2) /\ StoreLine(6)
    /\ receipt_data.store_name = "Walmart Supercenter"

\* the pages without direct text
ScannedPages == {n \in 1..Len(pdf.pages) : strip(pdf.pages[n].page_text) = ""}

\* the temporary file, once created, is gone when the call has returned
C29_TempFileDeleted == pdf.at = "returned" => pdf.tmp_file # "exists"

\* without PDF support and after an exception the call returns ('', None)
C29_EmptyPairOnError ==
    pdf.at = "returned" =>
        ((~pdf.PDF_SUPPORT \/ pdf.doc # "closed") =>
            pdf.returned = [full_text |-> "", images |-> [none |-> TRUE, list |-> <<>>]])

\* the image list is returned only when the call has not raised and a page
\* had no direct text: it then holds the images of these pages; otherwise
\* None is returned
C29_ImagesOnlyAfterOcr ==
    pdf.at = "returned" =>
        IF pdf.PDF_SUPPORT /\ pdf.doc = "closed" /\ ScannedPages # {}
        THEN /\ ~pdf.returned.images.none
             /\ {pdf.returned.images.list[n] : n \in 1..Len(pdf.returned.images.list)} = ScannedPages
        ELSE pdf.returned.images = [none |-> TRUE, list |-> <<>>]

\* C29: extract_text_from_pdf deletes the temporary file on every path after
\* it was created, returns ('', None) on any exception and when PDF support
\* is unavailable, and returns the image list only when a page had no direct
\* text and was OCR-ed, otherwise None.
C29_PdfCleanupAndResult ==
    /\ C29_TempFileDeleted
    /\ C29_EmptyPairOnError
    /\ C29_ImagesOnlyAfterOcr

====
